---- MODULE Spec2Model ----
(***************************************************************************)
(* Gradescope -> Google Calendar sync (src/sync_gradescope.py).            *)
(*                                                                         *)
(* Texts (due-date texts, names, titles) are sequences of tokens.  A token *)
(* is a record [k, v]: k is the kind of the piece of text, v the date/time *)
(* it denotes (0 for pieces that denote none).  The kinds of date pieces:  *)
(*   Iso     "2026-01-15T23:59:00"        Tz     "-0800"                   *)
(*   Abbr    "Jan"     Full  "January"    May    "May" (both %b and %B)    *)
(*   Tail    " 15, 2026 11:59 PM"         AtTail " 15, 2026 at 11:59 PM"   *)
(*   Num     "01/15/2026 11:59 PM"        IsoSp  "2026-01-15 23:59:00 -0800"*)
(*   Word    any other run of word characters ("Due", "Sept", "HW")        *)
(*   Sp      white space                  X      punctuation (":", "-")    *)
(*   Frag    the tail end of a longer token, cut out by a regex match      *)
(***************************************************************************)
EXTENDS Integers, Sequences, FiniteSets, TLC

VARIABLES
    text,       \* SpecParse: the argument date_str of _parse_date
    parsed,     \* SpecParse: what _parse_date returned for it
    pdone,      \* SpecParse: TRUE once _parse_date has returned
    calendar,   \* the remote calendar: its events, in the service's stable order
    nextId,     \* the id the service gives the next inserted event
    last,       \* the latest create_or_update_event call: arguments and outcome
    prev,       \* the call before it
    foreign,    \* how many events the calendar held before the first call or run:
                \* the events with a greater id were inserted since
    ncalls,     \* SpecApi: calls made so far
    pc,         \* main: "idle", "course" (top of the course loop), "assign" (top of
                \* the assignment loop), "done" (summary printed), "aborted" (exit 1)
    runs,       \* runs of main started so far
    courses,    \* main: the list get_courses returned
    ci,         \* main: position in courses
    assignments, \* main: the list get_assignments returned for courses[ci]
    ai,         \* main: position in assignments
    totals,     \* main: total_created, total_updated, total_skipped
    summary,    \* what the run printed as its summary (printed = FALSE: nothing yet)
    exit_code,  \* the exit status of the run (-1 while it runs)
    obs,        \* what the run did so far: assignments listed, remote calls made, ...
    procs,      \* SpecConcurrent: each of the two runs, inside create_or_update_event
    writes      \* SpecConcurrent: remote writes done so far

pvars == <<text, parsed, pdone>>
cvars == <<calendar, nextId, last, prev>>
mvars == <<pc, runs, courses, ci, assignments, ai, totals, summary, exit_code, obs>>
xvars == <<procs, writes>>
vars == <<text, parsed, pdone, calendar, nextId, last, prev, foreign, ncalls,
          pc, runs, courses, ci, assignments, ai, totals, summary, exit_code, obs,
          procs, writes>>

----------------------------------------------------------------------------
(* Texts *)

\* the longest due-date text SpecParse tries, in tokens
MaxTextLen == 3

\* the distinct dates/times the date pieces denote
Dates == {1, 2}

Tok(k, v) == [k |-> k, v |-> v]

PlainKinds == {"Sp", "X", "Word", "Abbr", "Full", "May", "Tz"}
DateKinds  == {"Tail", "AtTail", "Iso", "Num", "IsoSp"}

Tokens == {Tok(k, 0) : k \in PlainKinds} \cup {Tok(k, d) : k \in DateKinds, d \in Dates}

\* kinds made of word characters only (\w+ runs through them)
WordKinds == {"Word", "Abbr", "Full", "May"}
\* kinds whose last character is a word character
WordEndKinds == WordKinds \cup {"Tz", "Tail", "AtTail", "Iso", "Num", "IsoSp", "Frag"}

\* Python None / a str, for an Optional[str]
NoneStr == [some |-> FALSE, s |-> <<>>]
Str(s)  == [some |-> TRUE, s |-> s]

\* Python None / a datetime, for an Optional[datetime]; fmt records which
\* entry of `formats` produced the value
NoDate == [ok |-> FALSE, v |-> 0, tz |-> FALSE, fmt |-> 0]
DateTime(v, tz, fmt) == [ok |-> TRUE, v |-> v, tz |-> tz, fmt |-> fmt]

----------------------------------------------------------------------------
(* _parse_date *)

NumFormats == 7
NumPatterns == 2

\* str.strip(): drop leading and trailing white space
RECURSIVE LStrip(_)
LStrip(s) == IF s # <<>> /\ Head(s).k = "Sp" THEN LStrip(Tail(s)) ELSE s

RECURSIVE RStrip(_)
RStrip(s) ==
    IF s # <<>> /\ s[Len(s)].k = "Sp" THEN RStrip(SubSeq(s, 1, Len(s) - 1)) ELSE s

strip(s) == RStrip(LStrip(s))

\* datetime.strptime(s, formats[i]) raises no ValueError
Matches(s, i) ==
    CASE i = 1 -> Len(s) = 2 /\ s[1].k = "Iso" /\ s[2].k = "Tz"
      [] i = 2 -> Len(s) = 1 /\ s[1].k = "Iso"
      [] i = 3 -> Len(s) = 2 /\ s[1].k \in {"Abbr", "May"} /\ s[2].k = "Tail"
      [] i = 4 -> Len(s) = 2 /\ s[1].k \in {"Abbr", "May"} /\ s[2].k = "AtTail"
      [] i = 5 -> Len(s) = 2 /\ s[1].k \in {"Full", "May"} /\ s[2].k = "Tail"
      [] i = 6 -> Len(s) = 1 /\ s[1].k = "Num"
      [] i = 7 -> Len(s) = 1 /\ s[1].k = "IsoSp"
      [] OTHER -> FALSE

\* the datetime strptime(s, formats[i]) returns when it matches: %z makes it
\* timezone-aware, every other format leaves it naive
strptime(s, i) ==
    CASE i = 1 -> DateTime(s[1].v, TRUE, 1)
      [] i = 7 -> DateTime(s[1].v, TRUE, 7)
      [] i \in {2, 6} -> DateTime(s[1].v, FALSE, i)
      [] OTHER -> DateTime(s[2].v, FALSE, i)

\* for fmt in formats: try: return strptime(s, fmt) except ValueError: continue
RECURSIVE TryFormats(_, _)
TryFormats(s, i) ==
    IF i > NumFormats THEN NoDate
    ELSE IF Matches(s, i) THEN strptime(s, i)
    ELSE TryFormats(s, i + 1)

\* positions where patterns[1] = \w+ \d+, \d{4} \d+:\d+ [AP]M can end: a Tail
\* right after a word character
Pattern1Ends(s) == {i \in 2..Len(s) : s[i].k = "Tail" /\ s[i - 1].k \in WordEndKinds}

\* first position of the run of word-only tokens that ends at position i
RECURSIVE RunStart(_, _)
RunStart(s, i) ==
    IF i > 1 /\ s[i - 1].k \in WordKinds THEN RunStart(s, i - 1) ELSE i

Min(S) == CHOOSE x \in S : \A y \in S : x <= y

\* re.search(patterns[p], s): [found, group] with group = match.group(1).
\* \w+ is greedy: it takes the whole run of word characters before the Tail,
\* reaching into the end of a preceding token that ends in word characters.
search(p, s) ==
    IF p = 1 THEN
        IF Pattern1Ends(s) = {} THEN [found |-> FALSE, group |-> <<>>]
        ELSE LET e == Min(Pattern1Ends(s))
                 b == RunStart(s, e)
                 cut == (b > 1 /\ s[b - 1].k \in WordEndKinds)
             IN  [found |-> TRUE,
                  group |-> (IF cut THEN <<Tok("Frag", 0)>> ELSE <<>>)
                            \o SubSeq(s, b, e)]
    ELSE
        LET isos == {i \in 1..Len(s) : s[i].k = "Iso"}
        IN  IF isos = {} THEN [found |-> FALSE, group |-> <<>>]
            ELSE [found |-> TRUE, group |-> <<s[Min(isos)]>>]

\* for pattern in patterns: match = re.search(...); if match: for fmt in formats ...
RECURSIVE TryPatterns(_, _)
TryPatterns(s, p) ==
    IF p > NumPatterns THEN NoDate
    ELSE LET m == search(p, s)
             r == IF m.found THEN TryFormats(m.group, 1) ELSE NoDate
         IN  IF r.ok THEN r ELSE TryPatterns(s, p + 1)

\* a mutant of parse_date: the regex extraction runs before the whole-text formats
parse_date_extract_first(date_str) ==
    IF ~date_str.some \/ date_str.s = <<>> THEN NoDate
    ELSE LET r == TryPatterns(date_str.s, 1)
         IN  IF r.ok THEN r ELSE TryFormats(strip(date_str.s), 1)

\* GoogleCalendarClient._parse_date
parse_date(date_str) ==
    IF ~date_str.some \/ date_str.s = <<>> THEN NoDate
    ELSE LET r == TryFormats(strip(date_str.s), 1)
         IN  IF r.ok THEN r ELSE TryPatterns(date_str.s, 1)

----------------------------------------------------------------------------
(* The remote calendar, as find_event and create_or_update_event use it *)

\* maxResults=10 of the events().list call
MaxResults == 10

W(n) == Tok("Word", n)

\* the words of a text, which the service's free-text search goes by
Words(s) == {s[i] : i \in {j \in 1..Len(s) : s[j].k = "Word"}}

\* events().list(q=...): the service's free-text match of q against an event: every
\* word of q occurs in the event's summary, description or location
LooseMatch(q, e) ==
    Words(q) \subseteq (Words(e.summary) \cup Words(e.description) \cup Words(e.location))

\* datetime.isoformat(): an aware datetime carries its offset, a naive one none
isoformat(dt) == <<Tok("Iso", dt.v)>> \o (IF dt.tz THEN <<Tok("Tz", 0)>> ELSE <<>>)

FixedReminders == [useDefault |-> FALSE, overrides |-> <<60, 1440>>]

\* event_body of create_or_update_event; location "" (<<>>) stands for no key
event_body(title, event_datetime, description, location) ==
    [summary     |-> title,
     description |-> description,
     location    |-> location,
     start       |-> [dateTime |-> isoformat(event_datetime),
                      timeZone |-> "America/Los_Angeles"],
     end         |-> [dateTime |-> isoformat(event_datetime),
                      timeZone |-> "America/Los_Angeles"],
     reminders   |-> FixedReminders]

Stored(id, body) ==
    [id |-> id, summary |-> body.summary, description |-> body.description,
     location |-> body.location, start |-> body.start, end |-> body.end,
     reminders |-> body.reminders]

\* events().list(calendarId, q=title, maxResults=10, singleEvents=True).execute():
\* the first page of the matching events; no further page is ever asked for
events_list(cal, q) ==
    LET all == SelectSeq(cal, LAMBDA e : LooseMatch(q, e))
    IN  SubSeq(all, 1, IF Len(all) < MaxResults THEN Len(all) ELSE MaxResults)

\* events().update(eventId, body).execute(): the event is replaced by the body
events_update(cal, id, body) ==
    [i \in 1..Len(cal) |-> IF cal[i].id = id THEN Stored(id, body) ELSE cal[i]]

\* events().insert(body).execute(): a new event with a fresh id
events_insert(cal, nid, body) == Append(cal, Stored(nid, body))

\* what a call of find_event comes to: raised (an exception leaves it) or the
\* id of the returned event, 0 for None
Found(raised, id) == [raised |-> raised, id |-> id]

\* a mutant of find_event: the failure of the list call is not caught
find_event_uncaught(cal, title, listOk) ==
    IF ~listOk THEN Found(TRUE, 0)
    ELSE LET events == events_list(cal, title)
             hits == {i \in 1..Len(events) : events[i].summary = title}
         IN  IF hits = {} THEN Found(FALSE, 0) ELSE Found(FALSE, events[Min(hits)].id)

\* GoogleCalendarClient.find_event: the first event of the page whose summary
\* equals title; None when there is none and when the list call raised (the
\* except clause catches every Exception, so nothing leaves find_event)
find_event(cal, title, listOk) ==
    IF ~listOk THEN Found(FALSE, 0)
    ELSE LET events == events_list(cal, title)
             hits == {i \in 1..Len(events) : events[i].summary = title}
         IN  IF hits = {} THEN Found(FALSE, 0) ELSE Found(FALSE, events[Min(hits)].id)

\* the record of one create_or_update_event call: its arguments, what it
\* returned (result, event: the id of the event in the returned dict), the remote
\* calls it made in order, what find_event returned (existing: an id, 0 for None),
\* whether the list call raised, and the calendar before the call
CallRec(title, due, desc, loc, result, calls, existing, event, listFailed, before) ==
    [title |-> title, due |-> due, desc |-> desc, loc |-> loc, result |-> result,
     calls |-> calls, existing |-> existing, event |-> event,
     listFailed |-> listFailed, before |-> before]

NoCall == CallRec(<<>>, NoneStr, <<>>, <<>>, "nocall", <<>>, 0, 0, FALSE, <<>>)

Outcome(rec, cal, nid) == [rec |-> rec, calendar |-> cal, nextId |-> nid]

\* a mutant of write_event: the calendar is looked at again at the time of the
\* write, as if lookup and write were one indivisible step
write_event_atomic(cal, nid, existing_id, body, writeOk) ==
    LET hits == {i \in 1..Len(cal) : cal[i].summary = body.summary}
        id == IF existing_id # 0 THEN existing_id
              ELSE IF hits = {} THEN 0 ELSE cal[Min(hits)].id
    IN  IF ~writeOk
        THEN [result |-> "raised", call |-> IF id # 0 THEN "update" ELSE "insert",
              event |-> 0, calendar |-> cal, nextId |-> nid]
        ELSE IF id # 0
        THEN [result |-> "updated", call |-> "update", event |-> id,
              calendar |-> events_update(cal, id, body), nextId |-> nid]
        ELSE [result |-> "created", call |-> "insert", event |-> nid,
              calendar |-> events_insert(cal, nid, body), nextId |-> nid + 1]

\* create_or_update_event, lines 257-271: if existing_event: update it, return
\* 'updated'; else: insert, return 'created'.  writeOk: whether the service answers
\* the write; when it does not, the exception propagates ("raised").
write_event(cal, nid, existing_id, body, writeOk) ==
    IF ~writeOk
    THEN [result |-> "raised", call |-> IF existing_id # 0 THEN "update" ELSE "insert",
          event |-> 0, calendar |-> cal, nextId |-> nid]
    ELSE IF existing_id # 0
    THEN [result |-> "updated", call |-> "update", event |-> existing_id,
          calendar |-> events_update(cal, existing_id, body), nextId |-> nid]
    ELSE [result |-> "created", call |-> "insert", event |-> nid,
          calendar |-> events_insert(cal, nid, body), nextId |-> nid + 1]

\* create_or_update_event from event_body on (lines 231-271): look the title up,
\* then update the event found or insert a new one.  listOk: whether the service
\* answers the list call.
reconcile(cal, nid, title, event_datetime, due, desc, loc, listOk, writeOk) ==
    LET Rec(result, calls, existing, event) ==
            CallRec(title, due, desc, loc, result, calls, existing, event, ~listOk, cal)
        body == event_body(title, event_datetime, desc, loc)
        existing_event == find_event(cal, title, listOk)
    IN  IF existing_event.raised
        THEN Outcome(Rec("raised", <<"list">>, 0, 0), cal, nid)
        ELSE LET w == write_event(cal, nid, existing_event.id, body, writeOk)
             IN  Outcome(Rec(w.result, <<"list", w.call>>, existing_event.id, w.event),
                         w.calendar, w.nextId)

\* a mutant of create_or_update_event: the lookup runs before the date is checked
create_or_update_event_lookup_first(cal, nid, title, due, desc, loc, listOk, writeOk) ==
    LET event_datetime == parse_date(due)
        existing_event == find_event(cal, title, listOk)
    IN  IF ~event_datetime.ok
        THEN Outcome(CallRec(title, due, desc, loc, "none", <<"list">>,
                             existing_event.id, 0, ~listOk, cal), cal, nid)
        ELSE reconcile(cal, nid, title, event_datetime, due, desc, loc, listOk, writeOk)

\* GoogleCalendarClient.create_or_update_event.  result: "none" (return None),
\* "updated", "created", or "raised" (an exception of a remote call propagates).
create_or_update_event(cal, nid, title, due, desc, loc, listOk, writeOk) ==
    LET event_datetime == parse_date(due)
    IN  IF ~event_datetime.ok
        THEN Outcome(CallRec(title, due, desc, loc, "none", <<>>, 0, 0, FALSE, cal),
                     cal, nid)
        ELSE reconcile(cal, nid, title, event_datetime, due, desc, loc, listOk, writeOk)

----------------------------------------------------------------------------
(* Names, titles and the calendars a run can meet *)

\* f"{assignment['name']} - {course['short_name']}"
Title(name, short_name) == name \o <<Tok(" - ", 0)>> \o short_name

\* f"Course: {course['full_name']}\n" + f"Link: {assignment['url']}" (url: "" for none)
Description(full_name, url) ==
    <<Tok("Course: ", 0)>> \o full_name \o <<Tok("\n", 0)>>
    \o (IF url # <<>> THEN <<Tok("Link: ", 0)>> \o url ELSE <<>>)

NameHW  == <<W(1)>>                       \* "HW"
NameHW2 == <<W(1), Tok("Sp", 0), W(2)>>   \* "HW 2"
ShortCS == <<W(3)>>                       \* "CS"
FullCS  == <<W(3), Tok("Sp", 0), W(4)>>   \* "CS Intro"

TitleHW  == Title(NameHW, ShortCS)
TitleHW2 == Title(NameHW2, ShortCS)

\* an event somebody else put in the calendar
Foreign(id, title, v) ==
    [id |-> id, summary |-> title, description |-> <<W(5)>>, location |-> <<W(6)>>,
     start |-> [dateTime |-> <<Tok("Iso", v)>>, timeZone |-> "UTC"],
     end   |-> [dateTime |-> <<Tok("Iso", v + 1)>>, timeZone |-> "UTC"],
     reminders |-> [useDefault |-> TRUE, overrides |-> <<>>]]

\* the calendars a first call can meet: empty; an event with a similar title; two
\* events that already carry the title, after a similar one; a full page of events
\* with similar titles
InitCalendars ==
    { <<>>,
      <<Foreign(1, TitleHW2, 1)>>,
      <<Foreign(1, TitleHW2, 1), Foreign(2, TitleHW, 1), Foreign(3, TitleHW, 2)>>,
      [i \in 1..MaxResults |-> Foreign(i, TitleHW2, 1)] }

\* due-date texts: "Jan 15, 2026 11:59 PM", "2026-01-16T23:59:00-0800", and "TBD"
DueJan == Str(<<Tok("Abbr", 0), Tok("Tail", 1)>>)
DueIso == Str(<<Tok("Iso", 2), Tok("Tz", 0)>>)
DueTBD == Str(<<W(8)>>)

CountTitle(cal, title) == Cardinality({i \in 1..Len(cal) : cal[i].summary = title})

----------------------------------------------------------------------------
(* main: one sync run after another against the same calendar *)

\* how many times main is run, one run after another
MaxRuns == 2

Zero == [created |-> 0, updated |-> 0, skipped |-> 0]
NoSummary == [printed |-> FALSE, created |-> 0, updated |-> 0, skipped |-> 0]
NoObs == [listed |-> 0, noDue |-> 0, unparseable |-> 0,
          lists |-> 0, inserts |-> 0, updates |-> 0, calls |-> 0,
          lookupFailures |-> 0, failure |-> "none"]

MainIdle ==
    /\ pc = "idle" /\ runs = 0 /\ courses = <<>> /\ ci = 1
    /\ assignments = <<>> /\ ai = 1 /\ totals = Zero
    /\ summary = NoSummary /\ exit_code = -1 /\ obs = NoObs

NoProcs ==
    /\ procs = <<>> /\ writes = 0

ShortMath == <<W(9)>>
CourseCS   == [short_name |-> ShortCS, full_name |-> FullCS]
CourseMath == [short_name |-> ShortMath, full_name |-> ShortMath]

\* the course lists get_courses can return
CourseLists == {<<CourseCS, CourseMath>>, <<>>}

Row(name, due_date, url) == [name |-> name, due_date |-> due_date, url |-> url]

\* the due_date get_assignments can find in a row: None, "", or a text
RowDues == {NoneStr, DueTBD, DueJan}

\* the assignment lists get_assignments can return for a course: the rows stay
\* listed, their due-date texts change from run to run
AssignmentLists(course) ==
    IF course = CourseCS
    THEN {<<Row(NameHW, d1, <<W(10)>>), Row(NameHW2, d2, <<>>)>> :
             d1 \in {DueJan, DueIso}, d2 \in RowDues}
    ELSE {<<Row(NameHW, d, <<>>)>> : d \in {Str(<<>>), DueJan}}

\* a mutant of on_exception: the handler forgets the exit status
on_exception_exit_zero == [pc |-> "aborted", exit_code |-> 0]

\* except Exception as e: print, traceback.print_exc(), sys.exit(1)
on_exception == [pc |-> "aborted", exit_code |-> 1]

\* a mutant of count_result: a None result is not counted
count_result_drops_none(t, result) ==
    IF result = "created" THEN [t EXCEPT !.created = @ + 1]
    ELSE IF result = "updated" THEN [t EXCEPT !.updated = @ + 1]
    ELSE t

\* if result: created -> total_created += 1, else total_updated += 1;
\* else: total_skipped += 1
count_result(t, result) ==
    IF result # "none"
    THEN IF result = "created" THEN [t EXCEPT !.created = @ + 1]
         ELSE [t EXCEPT !.updated = @ + 1]
    ELSE [t EXCEPT !.skipped = @ + 1]

\* not assignment['due_date']: None and "" are both falsy
Falsy(d) == ~d.some \/ d.s = <<>>

CountIn(calls, c) == Cardinality({i \in 1..Len(calls) : calls[i] = c})

\* the run's record of one create_or_update_event call
Observe(o, rec) ==
    [o EXCEPT !.calls = @ + 1,
              !.unparseable = @ + (IF rec.result = "none" THEN 1 ELSE 0),
              !.lists = @ + CountIn(rec.calls, "list"),
              !.lookupFailures = @ + (IF rec.listFailed THEN 1 ELSE 0),
              !.inserts = @ + (IF rec.result = "created" THEN 1 ELSE 0),
              !.updates = @ + (IF rec.result = "updated" THEN 1 ELSE 0),
              !.failure = IF rec.result = "raised" THEN "calendar" ELSE @]

Init ==
    /\ calendar \in InitCalendars
    /\ nextId = Len(calendar) + 1
    /\ foreign = Len(calendar)
    /\ last = NoCall /\ prev = NoCall /\ ncalls = 0
    /\ text = NoneStr /\ parsed = NoDate /\ pdone = FALSE
    /\ MainIdle
    /\ NoProcs

\* main, lines 336-368: credentials present, login, get_courses, calendar client
MainStart ==
    /\ pc \in {"idle", "done", "aborted"}
    /\ runs < MaxRuns
    /\ runs' = runs + 1
    /\ \E cs \in CourseLists : courses' = cs
    /\ pc' = "course" /\ ci' = 1 /\ assignments' = <<>> /\ ai' = 1
    /\ totals' = Zero /\ summary' = NoSummary /\ exit_code' = -1 /\ obs' = NoObs
    /\ last' = NoCall /\ prev' = NoCall
    /\ UNCHANGED <<calendar, nextId, ncalls>>
    /\ UNCHANGED <<pvars, foreign, xvars>>

\* main, lines 339-363, when a secret is missing (sys.exit(1)) or the login,
\* get_courses or the calendar client raises (the except clause)
MainStartFails ==
    /\ pc \in {"idle", "done", "aborted"}
    /\ runs < MaxRuns
    /\ runs' = runs + 1
    /\ pc' = on_exception.pc /\ exit_code' = on_exception.exit_code
    /\ courses' = <<>> /\ ci' = 1 /\ assignments' = <<>> /\ ai' = 1
    /\ totals' = Zero /\ summary' = NoSummary
    /\ obs' = [NoObs EXCEPT !.failure = "startup"]
    /\ last' = NoCall /\ prev' = NoCall
    /\ UNCHANGED <<calendar, nextId, ncalls>>
    /\ UNCHANGED <<pvars, foreign, xvars>>

\* for course in courses: assignments = gs_client.get_assignments(course['id'])
FetchAssignments ==
    /\ pc = "course" /\ ci <= Len(courses)
    /\ \/ /\ \E rows \in AssignmentLists(courses[ci]) :
                /\ assignments' = rows
                /\ obs' = [obs EXCEPT !.listed = @ + Len(rows)]
          /\ ai' = 1 /\ pc' = "assign"
          /\ UNCHANGED exit_code
       \/ /\ pc' = on_exception.pc /\ exit_code' = on_exception.exit_code
          /\ obs' = [obs EXCEPT !.failure = "portal"]
          /\ UNCHANGED <<assignments, ai>>
    /\ UNCHANGED <<runs, courses, ci, totals, summary>>
    /\ UNCHANGED <<cvars, ncalls>>
    /\ UNCHANGED <<pvars, foreign, xvars>>

\* the body of `for assignment in assignments`, lines 377-402
ProcessAssignment ==
    /\ pc = "assign" /\ ai <= Len(assignments)
    /\ LET assignment == assignments[ai]
           course == courses[ci]
       IN  IF Falsy(assignment.due_date)
           THEN /\ totals' = [totals EXCEPT !.skipped = @ + 1]
                /\ ai' = ai + 1
                /\ obs' = [obs EXCEPT !.noDue = @ + 1]
                /\ UNCHANGED <<pc, exit_code, cvars>>
           ELSE \E listOk \in BOOLEAN, writeOk \in BOOLEAN :
                LET title == Title(assignment.name, course.short_name)
                    description == Description(course.full_name, assignment.url)
                    o == create_or_update_event(calendar, nextId, title,
                             assignment.due_date, description, <<>>, listOk, writeOk)
                IN  /\ calendar' = o.calendar
                    /\ nextId' = o.nextId
                    /\ last' = o.rec
                    /\ obs' = Observe(obs, o.rec)
                    /\ UNCHANGED prev
                    /\ IF o.rec.result = "raised"
                       THEN /\ pc' = on_exception.pc
                            /\ exit_code' = on_exception.exit_code
                            /\ UNCHANGED <<totals, ai>>
                       ELSE /\ totals' = count_result(totals, o.rec.result)
                            /\ ai' = ai + 1
                            /\ UNCHANGED <<pc, exit_code>>
    /\ UNCHANGED <<runs, courses, ci, assignments, summary, ncalls>>
    /\ UNCHANGED <<pvars, foreign, xvars>>

\* the assignment loop is exhausted: on to the next course
NextCourse ==
    /\ pc = "assign" /\ ai > Len(assignments)
    /\ pc' = "course" /\ ci' = ci + 1
    /\ UNCHANGED <<runs, courses, assignments, ai, totals, summary, exit_code, obs>>
    /\ UNCHANGED <<cvars, ncalls>>
    /\ UNCHANGED <<pvars, foreign, xvars>>

\* the course loop is exhausted: lines 404-409 print the summary
PrintSummary ==
    /\ pc = "course" /\ ci > Len(courses)
    /\ summary' = [printed |-> TRUE, created |-> totals.created,
                   updated |-> totals.updated, skipped |-> totals.skipped]
    /\ pc' = "done" /\ exit_code' = 0
    /\ UNCHANGED <<runs, courses, ci, assignments, ai, totals, obs>>
    /\ UNCHANGED <<cvars, ncalls>>
    /\ UNCHANGED <<pvars, foreign, xvars>>

RunStep == FetchAssignments \/ ProcessAssignment \/ NextCourse \/ PrintSummary

Next == MainStart \/ MainStartFails \/ FetchAssignments \/ ProcessAssignment
        \/ NextCourse \/ PrintSummary

----------------------------------------------------------------------------
(* SpecApi: create_or_update_event called directly, any number of times *)

\* how many direct calls are made
MaxCalls == 2

ApiTitles == {TitleHW, TitleHW2}
ApiDues   == {NoneStr, Str(<<>>), DueTBD, DueJan, DueIso}
ApiDescs  == {Description(FullCS, <<>>)}
ApiLocs   == {<<>>}

InitApi ==
    /\ calendar \in InitCalendars
    /\ nextId = Len(calendar) + 1
    /\ foreign = Len(calendar)
    /\ last = NoCall
    /\ prev = NoCall
    /\ ncalls = 0
    /\ text = NoneStr /\ parsed = NoDate /\ pdone = FALSE
    /\ MainIdle
    /\ NoProcs

ApiCall ==
    /\ ncalls < MaxCalls
    /\ \E title \in ApiTitles, due \in ApiDues, desc \in ApiDescs, loc \in ApiLocs,
          listOk \in BOOLEAN, writeOk \in BOOLEAN :
          LET o == create_or_update_event(calendar, nextId, title, due, desc, loc,
                                          listOk, writeOk)
          IN  /\ calendar' = o.calendar
              /\ nextId' = o.nextId
              /\ last' = o.rec
              /\ prev' = last
    /\ ncalls' = ncalls + 1
    /\ UNCHANGED <<pvars, foreign, xvars>>
    /\ UNCHANGED mvars

NextApi == ApiCall

----------------------------------------------------------------------------
(* SpecConcurrent: two runs at the same time, each inside create_or_update_event *)
(* for the assignment HW of course CS.  The remote calls are the steps: the     *)
(* service takes the list call and the write call of a run one at a time, and   *)
(* calls of the other run can come in between.                                  *)

Runs == {1, 2}

Proc(at, due, existing, result, seen) ==
    [at |-> at, due |-> due, existing |-> existing, result |-> result, seen |-> seen]

InitConcurrent ==
    /\ calendar \in InitCalendars
    /\ nextId = Len(calendar) + 1
    /\ foreign = Len(calendar)
    /\ procs \in [Runs -> {Proc("start", d, 0, "nocall", 0) : d \in {DueJan, DueIso, DueTBD}}]
    /\ writes = 0
    /\ last = NoCall /\ prev = NoCall /\ ncalls = 0
    /\ text = NoneStr /\ parsed = NoDate /\ pdone = FALSE
    /\ MainIdle

\* lines 226-255 of create_or_update_event in run p: the date check, then find_event
ConcLookup(p) ==
    /\ procs[p].at = "start"
    /\ IF ~parse_date(procs[p].due).ok
       THEN procs' = [procs EXCEPT ![p].at = "done", ![p].result = "none"]
       ELSE \E listOk \in BOOLEAN :
               LET existing_event == find_event(calendar, TitleHW, listOk)
               IN  procs' = [procs EXCEPT ![p].at = "looked",
                                          ![p].existing = existing_event.id,
                                          ![p].seen = writes]
    /\ UNCHANGED <<calendar, nextId, writes>>
    /\ UNCHANGED <<last, prev, ncalls, foreign, pvars, mvars>>

\* lines 257-271 of create_or_update_event in run p: the update or the insert
ConcWrite(p) ==
    /\ procs[p].at = "looked"
    /\ \E writeOk \in BOOLEAN :
          LET body == event_body(TitleHW, parse_date(procs[p].due),
                                 Description(FullCS, <<W(10)>>), <<>>)
              w == write_event(calendar, nextId, procs[p].existing, body, writeOk)
          IN  /\ calendar' = w.calendar
              /\ nextId' = w.nextId
              /\ procs' = [procs EXCEPT ![p].at = "done", ![p].result = w.result]
              /\ writes' = writes + (IF w.result = "raised" THEN 0 ELSE 1)
    /\ UNCHANGED <<last, prev, ncalls, foreign, pvars, mvars>>

NextConcurrent == \E p \in Runs : ConcLookup(p) \/ ConcWrite(p)

----------------------------------------------------------------------------
(* SpecParse: _parse_date applied to every text within the bound *)

Texts == UNION {[1..n -> Tokens] : n \in 0..MaxTextLen}

InitParse ==
    /\ text \in {NoneStr} \cup {Str(s) : s \in Texts}
    /\ parsed = NoDate
    /\ pdone = FALSE
    /\ calendar = <<>> /\ nextId = 1 /\ last = NoCall /\ prev = NoCall /\ ncalls = 0
    /\ foreign = 0
    /\ MainIdle
    /\ NoProcs

CallParse ==
    /\ ~pdone
    /\ parsed' = parse_date(text)
    /\ pdone' = TRUE
    /\ UNCHANGED <<text, calendar, nextId, last, prev, ncalls, foreign, xvars>>
    /\ UNCHANGED mvars

NextParse == CallParse

----------------------------------------------------------------------------
(* Claims about _parse_date (SpecParse) *)

MatchingFormats(s) == {i \in 1..NumFormats : Matches(s, i)}

\* the result of the first format of the list that matches s
ByFirstFormat(s) ==
    IF MatchingFormats(s) = {} THEN NoDate ELSE strptime(s, Min(MatchingFormats(s)))

\* the result of the first format that matches what pattern p extracts from s
ByExtraction(p, s) ==
    IF search(p, s).found THEN ByFirstFormat(search(p, s).group) ELSE NoDate

\* the fixed ordered procedure of the normalizer
Normalized(d) ==
    IF ~d.some \/ d.s = <<>> THEN NoDate
    ELSE IF ByFirstFormat(strip(d.s)).ok THEN ByFirstFormat(strip(d.s))
    ELSE IF ByExtraction(1, d.s).ok THEN ByExtraction(1, d.s)
    ELSE ByExtraction(2, d.s)

\* C9: for every input text, _parse_date returns what the fixed ordered procedure
\* gives: NotParseable for empty or absent input; else the first format of the list
\* that matches the whole trimmed text; else, for the two extraction patterns in
\* order, the first format that matches the extracted substring; else NotParseable.
C9_Precedence == pdone => parsed = Normalized(text)

\* "May 15, 2026 11:59 PM" matches both %b (format 3) and %B (format 5): format 3 wins
C9_Witness ==
    /\ pdone /\ text.some
    /\ {3, 5} \subseteq MatchingFormats(strip(text.s))
    /\ parsed.ok /\ parsed.fmt = 3

----------------------------------------------------------------------------
(* Claims about create_or_update_event (SpecApi) *)

Called(c) == c.result # "nocall"
Returned(c) == c.result \in {"none", "created", "updated"}
SameArgs(c, d) == c.title = d.title /\ c.desc = d.desc /\ c.loc = d.loc
WithTitle(cal, title) == {i \in 1..Len(cal) : cal[i].summary = title}
BodyOf(c) == event_body(c.title, parse_date(c.due), c.desc, c.loc)

\* the events of a title that the runs inserted
Synced(title) == {i \in WithTitle(calendar, title) : calendar[i].id > foreign}

\* C1: from a calendar with no event of the title, two successive calls with the
\* same title, parseable due date and description return "created" then "updated",
\* and the calendar then holds exactly one event with that title.
C1_Idempotence ==
    (/\ Called(prev) /\ Returned(prev) /\ Returned(last)
     /\ SameArgs(prev, last) /\ prev.due = last.due
     /\ parse_date(last.due).ok
     /\ WithTitle(prev.before, prev.title) = {})
    => /\ prev.result = "created"
       /\ last.result = "updated"
       /\ CountTitle(calendar, last.title) = 1

\* C2: from a calendar with no event of the title, a call with ts1 followed by a
\* call with ts2 # ts1 returns "created" then "updated", and the single event of
\* that title has start and end at ts2, with the second call's description and the
\* two fixed reminders.
C2_Update ==
    (/\ Called(prev) /\ Returned(prev) /\ Returned(last)
     /\ SameArgs(prev, last)
     /\ parse_date(prev.due).ok /\ parse_date(last.due).ok
     /\ parse_date(prev.due).v # parse_date(last.due).v
     /\ WithTitle(prev.before, prev.title) = {})
    => /\ prev.result = "created"
       /\ last.result = "updated"
       /\ CountTitle(calendar, last.title) = 1
       /\ \A i \in WithTitle(calendar, last.title) :
             /\ calendar[i].start = BodyOf(last).start
             /\ calendar[i].end = BodyOf(last).start
             /\ calendar[i].description = last.desc
             /\ calendar[i].reminders = FixedReminders

\* C4: when the due-date text cannot be normalized, create_or_update_event returns
\* None and makes no remote call (no list, no insert, no update); the calendar is
\* as it was before the call.
C4_Skip ==
    (Called(last) /\ ~parse_date(last.due).ok)
    => /\ last.result = "none"
       /\ last.calls = <<>>
       /\ calendar = last.before

\* an unparseable text for a title the calendar holds: still no lookup, no write
C4_Witness ==
    /\ last.result = "none" /\ last.due = DueTBD
    /\ WithTitle(calendar, last.title) # {}

\* C5: for a parseable due date, in any calendar state: if some event has exactly
\* the requested title, the call updates the first of them, reports "updated",
\* inserts nothing and leaves every other event as it was; if none has, it inserts
\* one new event and reports "created".  Either way it makes exactly one remote write.
C5_Decision ==
    (Called(last) /\ Returned(last) /\ parse_date(last.due).ok)
    => IF WithTitle(last.before, last.title) # {}
       THEN LET first == Min(WithTitle(last.before, last.title))
            IN  /\ last.result = "updated"
                /\ last.calls = <<"list", "update">>
                /\ Len(calendar) = Len(last.before)
                /\ calendar[first] = Stored(last.before[first].id, BodyOf(last))
                /\ \A j \in 1..Len(calendar) : j # first => calendar[j] = last.before[j]
       ELSE /\ last.result = "created"
            /\ last.calls = <<"list", "insert">>
            /\ calendar = Append(last.before, Stored(last.event, BodyOf(last)))

----------------------------------------------------------------------------
(* Claims about concurrent runs (SpecConcurrent) *)

\* both runs looked the title up before any write was done and found nothing,
\* and both then wrote
BothLookedFirst ==
    \A p \in Runs : /\ procs[p].at = "done" /\ procs[p].result \in {"created", "updated"}
                    /\ procs[p].existing = 0 /\ procs[p].seen = 0

\* C7: two runs at the same time on the same calendar and assignment can race:
\* when both lookups complete before either insert, both runs report "created"
\* and the calendar ends with two events of the same title; the
\* lookup-then-write sequence does nothing against it.
C7_Race ==
    (procs # <<>> /\ BothLookedFirst)
    => /\ \A p \in Runs : procs[p].result = "created"
       /\ Cardinality(Synced(TitleHW)) = 2

\* the race, from a calendar without the title, with both lookups answered
C7_Witness ==
    /\ procs # <<>> /\ BothLookedFirst
    /\ \A p \in Runs : procs[p].result = "created"
    /\ CountTitle(calendar, TitleHW) = 2
    /\ foreign = 0

----------------------------------------------------------------------------
(* Claims about main (Spec, FairSpec) *)

\* C3: over any number of runs made one after another, the calendar never holds
\* more than one event titled "HW - CS" for the assignment HW of course CS, which
\* stays listed with a parseable due date: the runs insert it at most once and
\* update it in place afterwards, also when remote calls fail.
C3_NoDuplicates == Cardinality(Synced(TitleHW)) <= 1

Running == pc \in {"course", "assign"}

\* C6: when the list call of find_event fails for an assignment, find_event
\* reports no existing event, create_or_update_event goes on to the insert, and
\* (the insert done) the loop goes on to the next assignment: the run is not aborted.
C6_LookupFailure ==
    [][(obs'.lookupFailures > obs.lookupFailures)
       => /\ last'.listFailed
          /\ last'.existing = 0
          /\ last'.calls = <<"list", "insert">>
          /\ last'.result \in {"created", "raised"}
          /\ last'.result = "created"
             => /\ pc' = "assign" /\ ai' = ai + 1 /\ ci' = ci
                /\ totals' = [totals EXCEPT !.created = @ + 1]
                /\ Len(calendar') = Len(calendar) + 1]_vars

\* a lookup failed earlier in the run, later assignments were reconciled and the
\* run reached its summary
C6_Witness ==
    /\ pc = "done" /\ obs.lookupFailures >= 1 /\ obs.calls >= 2
    /\ Called(last) /\ ~last.listFailed

\* C8: when the run reaches the summary, created + updated + skipped equals the
\* number of assignments listed over all courses; the skipped are the assignments
\* without due-date text and those with unparseable text, and neither made a
\* calendar call; created and updated equal the inserts and updates performed.
C8_Accounting ==
    pc = "done"
    => /\ summary.printed
       /\ summary.created + summary.updated + summary.skipped = obs.listed
       /\ summary.skipped = obs.noDue + obs.unparseable
       /\ summary.created = obs.inserts
       /\ summary.updated = obs.updates
       /\ obs.lists = obs.inserts + obs.updates

C8_Witness ==
    /\ pc = "done" /\ obs.noDue >= 1 /\ obs.unparseable >= 1
    /\ obs.inserts >= 1 /\ obs.listed = 3

\* the position of a run in its two loops moves forward in every step
Forward ==
    \/ ci' > ci
    \/ ci' = ci /\ pc = "course" /\ pc' = "assign"
    \/ ci' = ci /\ pc = "assign" /\ pc' = "assign" /\ ai' > ai

\* C10: a run that got past configuration and login ends in the summary or in a
\* hard abort: while it runs a step is enabled, and every step moves it forward
\* in its loops, prints the summary or aborts.  It aborts only in a step where a
\* call other than the lookup failed (the portal fetch, the insert or the update);
\* the aborted run does nothing more: it processes no later assignment, prints no
\* summary, exits non-zero, and the calendar keeps what was written before.
C10_SummaryOrAbort ==
    /\ [](pc = "aborted" => exit_code # 0 /\ exit_code # -1 /\ ~summary.printed
                            /\ obs.failure # "none")
    /\ [](pc = "done" => summary.printed /\ exit_code = 0 /\ obs.failure = "none")
    /\ [](Running => /\ ENABLED RunStep
                     /\ ci <= Len(courses) + 1 /\ ai <= Len(assignments) + 1)
    /\ [][/\ Running => (Running' /\ Forward) \/ pc' \in {"done", "aborted"}
          /\ (Running /\ pc' = "aborted")
             => /\ calendar' = calendar
                /\ obs'.failure \in {"portal", "calendar"}
                /\ obs'.failure = "calendar"
                   => last'.result = "raised" /\ Len(last'.calls) = 2
          /\ (Running /\ pc' = "done") => obs'.failure = "none"
          /\ pc = "aborted" => runs' = runs + 1
          /\ (Running /\ obs'.failure = "none") => pc' # "aborted"]_vars

\* a run that inserted an event and then aborted on a later write, with
\* assignments left unprocessed
C10_Witness ==
    /\ pc = "aborted" /\ obs.failure = "calendar" /\ obs.inserts >= 1
    /\ ai <= Len(assignments) /\ ci < Len(courses)
    /\ Synced(TitleHW) # {}

----------------------------------------------------------------------------
SpecParse == InitParse /\ [][NextParse]_vars
SpecApi == InitApi /\ [][NextApi]_vars
Spec == Init /\ [][Next]_vars
SpecConcurrent == InitConcurrent /\ [][NextConcurrent]_vars

====
